---- MODULE Spec2Model ----
(***************************************************************************)
(* Availability reconciler of the calendar plugin                          *)
(* (server/mscalendar/availability.go): one connected user, the User Store *)
(* record of that user, the presence and custom status kept by the chat    *)
(* platform, and the sync cycle Sync -> syncUsers -> setUserStatuses ->    *)
(* setStatusFromCalendarView / setCustomStatusFromCalendarView.            *)
(***************************************************************************)
EXTENDS Integers, Sequences, FiniteSets, TLC

VARIABLES
    settings,   \* user.Settings, fixed for a behaviour
    store,      \* the User record kept by the User Store
    status,     \* presence of the user on the platform: Status and Manual
    custom,     \* custom status of the user on the platform
    recorded,   \* LastStatus stored by the cycle in which ActiveEvents became non-empty
    pc,         \* "idle" between cycles, "done" when a cycle has returned
    view,       \* the events the cycle fetched for the user
    pre,        \* store, presence and custom status at the start of the cycle
    calls,      \* calls the cycle made to the store, the presence sink and the notifier
    out,        \* what the cycle returned: message, counters
    prev,       \* the cycle before, when this cycle followed it over the same view
    job,        \* one SyncAll run over the whole user index: inputs, summary, log
    rem,        \* reminder delivery: the clock, the calendar and the reminders sent
    procs,      \* two sync invocations running at once for the user: position, locals
    http        \* the HTTP handlers: stored users, subscriptions, the last request served

base == <<settings, store, status, custom, recorded>>
cycle == <<pc, view, pre, calls, out, prev>>
aux == <<job, rem, procs, http>>
vars == <<settings, store, status, custom, recorded, pc, view, pre, calls, out, prev, job, rem,
          procs, http>>

----------------------------------------------------------------------------
(* Bounds of the model *)

MaxEvents == 2      \* events in one fetched calendar view
MaxTime == 2        \* events start and end within 0..MaxTime
MaxFailures == 1    \* collaborator calls that fail in one cycle
MaxUsers == 3       \* users in the user index of one SyncAll run
MaxClock == 60      \* reminder delivery: events start within 0..MaxClock quarter minutes
MaxReminderEvents == 1  \* reminder delivery: events in the calendar of the user
MaxAttendees == 2   \* attendees of the event of a single-meeting view
MaxNotifications == 2   \* notifications in one webhook request

----------------------------------------------------------------------------
(* Values *)

StatusOnline == "online"
StatusAway == "away"
StatusDnd == "dnd"
StatusOffline == "offline"
Statuses == {StatusOnline, StatusAway, StatusDnd, StatusOffline}

NotSetStatusOption == "notset"
AwayStatusOption == "away"
DNDStatusOption == "dnd"
StatusOptions == {"", NotSetStatusOption, AwayStatusOption, DNDStatusOption}

NoCustomStatus == "none"
MeetingCustomStatus == "In a meeting"
UserCustomStatus == "user-authored"

UIDs == {"m"}
Times == 0..MaxTime

\* remote.Event: the fields the reconciler reads
BusyEvents ==
    {e \in [ICalUID : UIDs, Start : Times, End : Times, ShowAs : {"busy"},
            IsCancelled : BOOLEAN, Attendees : 0..1] : e.Start < e.End}
FreeEvents ==
    {[ICalUID |-> "m", Start |-> 0, End |-> 1, ShowAs |-> "free",
      IsCancelled |-> FALSE, Attendees |-> 1]}
Events == BusyEvents \cup FreeEvents

Views == UNION {[1..n -> Events] : n \in 0..MaxEvents}

\* collaborator calls that can fail
Ops == {"StoreUser", "UpdateMattermostUserStatus", "DMWithAttachments",
        "StoreUserActiveEvents", "RemoveMattermostUserCustomStatus",
        "GetMattermostUser", "UpdateMattermostUserCustomStatus",
        "StoreUserCustomStatusUpdates"}
FailSets == {F \in SUBSET Ops : Cardinality(F) <= MaxFailures}

----------------------------------------------------------------------------
(* Pure functions *)

RECURSIVE filterBusyEvents(_)
filterBusyEvents(events) ==
    IF events = <<>> THEN <<>>
    ELSE LET rest == filterBusyEvents(Tail(events))
         IN IF Head(events).ShowAs = "busy" THEN <<Head(events)>> \o rest ELSE rest

\* insert e into the sorted sequence s, after the elements that do not start later
RECURSIVE InsertByStart(_, _)
InsertByStart(s, e) ==
    IF s = <<>> THEN <<e>>
    ELSE IF e.Start < Head(s).Start THEN <<e>> \o s
    ELSE <<Head(s)>> \o InsertByStart(Tail(s), e)

\* sort.Slice(events, less by Start): insertion sort for short slices
RECURSIVE SortByStart(_)
SortByStart(events) ==
    IF events = <<>> THEN <<>>
    ELSE InsertByStart(SortByStart(SubSeq(events, 1, Len(events) - 1)), events[Len(events)])

\* the slice as checkOverlappingEvents leaves it: sorted in place when longer than 1
SortedInPlace(events) == IF Len(events) <= 1 THEN events ELSE SortByStart(events)

\* the comparison loop started one element late
checkOverlappingEvents_FromThird(events) ==
    IF Len(events) <= 1 THEN FALSE
    ELSE LET s == SortByStart(events)
         IN \E i \in 3..Len(s) : s[i-1].End > s[i].Start

checkOverlappingEvents(events) ==
    IF Len(events) <= 1 THEN FALSE
    ELSE LET s == SortByStart(events)
         IN \E i \in 2..Len(s) : s[i-1].End > s[i].Start

\* fmt.Sprintf("%s %s", e.ICalUID, e.Start.Time().UTC().Format(time.RFC3339))
Fingerprint(e) == <<e.ICalUID, e.Start>>

RECURSIVE RemoteHashes(_)
RemoteHashes(events) ==
    IF events = <<>> THEN <<>>
    ELSE LET rest == RemoteHashes(Tail(events))
         IN IF Head(events).IsCancelled THEN rest ELSE <<Fingerprint(Head(events))>> \o rest

Range(s) == {s[i] : i \in 1..Len(s)}

\* the loop of lines 400-413: some remote hash is not among the stored ones
NewEventExists_Always(remoteHashes, activeEvents) == TRUE

NewEventExists(remoteHashes, activeEvents) ==
    \E i \in 1..Len(remoteHashes) :
        \A j \in 1..Len(activeEvents) : activeEvents[j] # remoteHashes[i]

BusyStatus_AlwaysAway(s) == StatusAway

BusyStatus(s) == IF s.UpdateStatusFromOptions = AwayStatusOption THEN StatusAway ELSE StatusDnd

----------------------------------------------------------------------------
(* The handler's steps.  A context c carries the in-memory user record    *)
(* (mem), the store, the platform's presence and custom status, and the   *)
(* calls made so far.                                                      *)

Call(c, op, arg, ok) == [c EXCEPT !.calls = Append(@, [op |-> op, arg |-> arg, ok |-> ok])]

\* m.Store.StoreUser(user): the whole in-memory record replaces the stored one
StoreUser(c, fails) ==
    IF "StoreUser" \in fails THEN Call(c, "StoreUser", c.mem.LastStatus, FALSE)
    ELSE [Call(c, "StoreUser", c.mem.LastStatus, TRUE) EXCEPT !.store = c.mem]

\* m.Store.StoreUserActiveEvents(id, events): the stored record with ActiveEvents replaced
StoreUserActiveEvents(c, events, fails) ==
    IF "StoreUserActiveEvents" \in fails THEN Call(c, "StoreUserActiveEvents", events, FALSE)
    ELSE [Call(c, "StoreUserActiveEvents", events, TRUE) EXCEPT !.store.ActiveEvents = events]

\* m.Store.StoreUserCustomStatusUpdates(id, flag): the stored record with the flag replaced
StoreUserCustomStatusUpdates(c, flag, fails) ==
    IF "StoreUserCustomStatusUpdates" \in fails
    THEN Call(c, "StoreUserCustomStatusUpdates", flag, FALSE)
    ELSE [Call(c, "StoreUserCustomStatusUpdates", flag, TRUE)
             EXCEPT !.store.IsCustomStatusSet = flag]

\* m.PluginAPI.UpdateMattermostUserStatus(id, toSet): a status set through the API is manual
UpdateMattermostUserStatus(c, toSet, fails) ==
    IF "UpdateMattermostUserStatus" \in fails
    THEN Call(c, "UpdateMattermostUserStatus", toSet, FALSE)
    ELSE [Call(c, "UpdateMattermostUserStatus", toSet, TRUE)
             EXCEPT !.status = [Status |-> toSet, Manual |-> TRUE]]

\* m.Poster.DMWithAttachments(id, RenderStatusChangeNotificationView(events, toSet, url))
DMWithAttachments(c, toSet, fails) ==
    Call(c, "DMWithAttachments", toSet, "DMWithAttachments" \notin fails)

Failed(c) == c.calls # <<>> /\ ~c.calls[Len(c.calls)].ok

\* the comparison with the busy status left out
AlreadyBusy_Never(currentStatus, s) == FALSE

\* currentStatus == busyStatus (lines 337, 376, 420)
AlreadyBusy(currentStatus, s) == currentStatus.Status = BusyStatus(s)

\* the confirmation setting ignored
AsksUser_Never(s) == FALSE

\* user.Settings.GetConfirmation as tested before the presence write (line 467)
AsksUser(s) == s.GetConfirmation

\* the custom status removed whoever set it
ClearsCustomStatus_Always(user) == TRUE

\* user.IsCustomStatusSet as tested when no busy event is left (line 261)
ClearsCustomStatus(user) == user.IsCustomStatusSet

\* the LastStatus setStatusOrAskUser leaves in the in-memory record
AskLastStatus(user, currentStatus, isFree, s) ==
    IF isFree THEN (IF user.LastStatus # "" THEN "" ELSE user.LastStatus)
    ELSE IF ~s.GetConfirmation
         THEN (IF currentStatus.Manual THEN currentStatus.Status ELSE "")
         ELSE user.LastStatus

\* the status setStatusOrAskUser sets or asks for
AskToSet(user, isFree, s) ==
    IF isFree THEN (IF user.LastStatus # "" THEN user.LastStatus ELSE StatusOnline)
    ELSE BusyStatus(s)

\* setStatusOrAskUser: [c |-> context after, err |-> an error was returned]
setStatusOrAskUser(c, currentStatus, isFree, s, fails) ==
    LET toSet == AskToSet(c.mem, isFree, s)
        c1 == [c EXCEPT !.mem.LastStatus = AskLastStatus(c.mem, currentStatus, isFree, s)]
        c2 == StoreUser(c1, fails)
    IN  IF Failed(c2) THEN [c |-> c2, err |-> TRUE]
        ELSE IF ~AsksUser(s)
        THEN LET c3 == UpdateMattermostUserStatus(c2, toSet, fails)
             IN [c |-> c3, err |-> Failed(c3)]
        ELSE LET c3 == DMWithAttachments(c2, toSet, fails)
             IN [c |-> c3, err |-> Failed(c3)]

Result(c, msg, changed, err) == [c |-> c, msg |-> msg, changed |-> changed, err |-> err]

\* the restore without the clearing of ActiveEvents
StatusBusyToFree_KeepsEvents(c, currentStatus, s, fails) ==
    LET restore == AlreadyBusy(currentStatus, s)
        a == IF restore THEN setStatusOrAskUser(c, currentStatus, TRUE, s, fails)
             ELSE [c |-> c, err |-> FALSE]
    IN  IF a.err THEN Result(a.c, "", FALSE, TRUE)
        ELSE Result(a.c, "User is no longer busy in calendar.", restore, FALSE)

\* lines 335-354: the user was busy and the view has no busy event left
StatusBusyToFree(c, currentStatus, s, fails) ==
    LET busyStatus == BusyStatus(s)
        restore == AlreadyBusy(currentStatus, s)
        message ==
            IF ~restore
            THEN "User is no longer busy in calendar, but is not set to busy (" \o busyStatus
                    \o "). No status change."
            ELSE IF c.mem.LastStatus # ""
            THEN "User is no longer busy in calendar. Set status to previous status ("
                    \o c.mem.LastStatus \o ")"
            ELSE "User is no longer busy in calendar. Set status to online."
        a == IF restore THEN setStatusOrAskUser(c, currentStatus, TRUE, s, fails)
             ELSE [c |-> c, err |-> FALSE]
    IN  IF a.err THEN Result(a.c, "", FALSE, TRUE)
        ELSE LET c2 == StoreUserActiveEvents(a.c, <<>>, fails)
             IN IF Failed(c2) THEN Result(c2, "", restore, TRUE)
                ELSE Result(c2, message, restore, FALSE)

\* lines 374-398: no stored active event, busy events in the view
StatusFreeToBusy(c, currentStatus, remoteHashes, s, fails) ==
    LET busyStatus == BusyStatus(s)
    IN  IF AlreadyBusy(currentStatus, s)
        THEN LET c1 == [c EXCEPT !.mem.LastStatus =
                            IF currentStatus.Manual THEN currentStatus.Status ELSE ""]
                 c2 == StoreUser(c1, fails)     \* the error is dropped
                 c3 == StoreUserActiveEvents(c2, remoteHashes, fails)
             IN IF Failed(c3) THEN Result(c3, "", FALSE, TRUE)
                ELSE Result(c3, "User was already marked as busy. No status change.",
                            FALSE, FALSE)
        ELSE LET a == setStatusOrAskUser(c, currentStatus, FALSE, s, fails)
             IN IF a.err THEN Result(a.c, "", FALSE, TRUE)
                ELSE LET c2 == StoreUserActiveEvents(a.c, remoteHashes, fails)
                     IN IF Failed(c2) THEN Result(c2, "", TRUE, TRUE)
                        ELSE Result(c2, "User was free, but is now busy (" \o busyStatus
                                        \o "). Set status to busy.", TRUE, FALSE)

EventCount(n) == IF n = 1 THEN "1" ELSE IF n = 2 THEN "2" ELSE IF n = 3 THEN "3" ELSE "many"

\* lines 400-434: stored active events, busy events in the view
StatusBusyToBusy(c, currentStatus, events, remoteHashes, s, fails) ==
    LET busyStatus == BusyStatus(s)
        assert == ~AlreadyBusy(currentStatus, s)
        message == IF assert
                   THEN "User was free, but is now busy. Set status to busy (" \o busyStatus
                            \o ")."
                   ELSE "User is already busy. No status change."
    IN  IF ~NewEventExists(remoteHashes, c.mem.ActiveEvents)
        THEN Result(c, "No change in active events. Total number of events: "
                        \o EventCount(Len(events)), FALSE, FALSE)
        ELSE LET a == IF assert THEN setStatusOrAskUser(c, currentStatus, FALSE, s, fails)
                      ELSE [c |-> c, err |-> FALSE]
             IN IF a.err THEN Result(a.c, "", FALSE, TRUE)
                ELSE LET c2 == StoreUserActiveEvents(a.c, remoteHashes, fails)
                     IN IF Failed(c2) THEN Result(c2, "", assert, TRUE)
                        ELSE Result(c2, message, assert, FALSE)

\* setStatusFromCalendarView(user, status, res)
setStatusFromCalendarView(c, currentStatus, v, s, fails) ==
    LET busy == filterBusyEvents(v)
        events == SortedInPlace(busy)
    IN  IF s.UpdateStatusFromOptions = ""
        THEN Result(c, "No value set from options to update status", FALSE, FALSE)
        ELSE IF currentStatus.Status = StatusOffline /\ ~s.GetConfirmation
        THEN Result(c, "User offline and does not want status change confirmations. No status change",
                    FALSE, FALSE)
        ELSE IF Len(c.mem.ActiveEvents) = 0 /\ Len(busy) = 0
        THEN Result(c, "No events in local or remote. No status change.", FALSE, FALSE)
        ELSE IF Len(c.mem.ActiveEvents) > 0 /\ Len(busy) = 0
        THEN StatusBusyToFree(c, currentStatus, s, fails)
        ELSE IF checkOverlappingEvents(busy)
        THEN Result(c, "Overlapping events, not updating status", FALSE, FALSE)
        ELSE IF events[1].Attendees < 1
        THEN Result(c, "No attendee present, not updating status", FALSE, FALSE)
        ELSE IF Len(c.mem.ActiveEvents) = 0
        THEN StatusFreeToBusy(c, currentStatus, RemoteHashes(events), s, fails)
        ELSE StatusBusyToBusy(c, currentStatus, events, RemoteHashes(events), s, fails)


\* setCustomStatusFromCalendarView(user, res)
setCustomStatusFromCalendarView(c, v, s, fails) ==
    LET busy == filterBusyEvents(v)
        events == SortedInPlace(busy)
    IN  IF ~s.SetCustomStatus
        THEN Result(c, "User don't want to set custom status", FALSE, FALSE)
        ELSE IF Len(busy) = 0
        THEN IF ClearsCustomStatus(c.mem)
             THEN LET ok == "RemoveMattermostUserCustomStatus" \notin fails
                      c1 == Call(c, "RemoveMattermostUserCustomStatus", "", ok)
                      c2 == [c1 EXCEPT !.custom = NoCustomStatus]
                      c3 == StoreUserCustomStatusUpdates(c2, FALSE, fails)
                  IN IF ~ok THEN Result(c1, "", FALSE, TRUE)
                     ELSE IF Failed(c3) THEN Result(c3, "", FALSE, TRUE)
                     ELSE Result(c3, "No event present to set custom status", FALSE, FALSE)
             ELSE Result(c, "No event present to set custom status", FALSE, FALSE)
        ELSE IF checkOverlappingEvents(busy)
        THEN Result(c, "Overlapping events, not setting a custom status", FALSE, FALSE)
        ELSE IF events[1].IsCancelled
        THEN Result(c, "Event cancelled, not setting custom status", FALSE, FALSE)
        ELSE IF events[1].Attendees < 1
        THEN Result(c, "No attendee present, not setting custom status", FALSE, FALSE)
        ELSE LET c1 == Call(c, "GetMattermostUser", "", "GetMattermostUser" \notin fails)
             IN IF Failed(c1) THEN Result(c1, "", FALSE, TRUE)
                ELSE IF c1.custom # NoCustomStatus /\ ~c1.mem.IsCustomStatusSet
                THEN Result(c1, "User already have a custom status set, ignoring custom status change",
                            FALSE, FALSE)
                ELSE LET ok == "UpdateMattermostUserCustomStatus" \notin fails
                         c2 == Call(c1, "UpdateMattermostUserCustomStatus", events[1].End, ok)
                         c3 == [c2 EXCEPT !.custom = MeetingCustomStatus]
                         c4 == StoreUserCustomStatusUpdates(c3, TRUE, fails)
                     IN IF ~ok THEN Result(c2, "", FALSE, TRUE)
                        ELSE IF Failed(c4) THEN Result(c4, "", TRUE, TRUE)
                        ELSE Result(c4, "", TRUE, FALSE)

Bit(b) == IF b THEN 1 ELSE 0

\* a custom status change counted whatever the status-update mode is
CountsCustomChange_Always(s) == TRUE

\* user.Settings.UpdateStatusFromOptions == NotSetStatusOption (line 240)
CountsCustomChange(s) == s.UpdateStatusFromOptions = NotSetStatusOption

\* setUserStatuses for the view of the user: [c, msg, changed, failed]
setUserStatuses(c, currentStatus, v, s, fails) ==
    IF ~(s.UpdateStatusFromOptions # NotSetStatusOption \/ s.SetCustomStatus)
    THEN [c |-> c, msg |-> "No users want their status updated", changed |-> 0, failed |-> 0]
    ELSE LET noop == Result(c, "", FALSE, FALSE)
             p == IF s.UpdateStatusFromOptions # NotSetStatusOption
                  THEN setStatusFromCalendarView(c, currentStatus, v, s, fails)
                  ELSE noop
             q == IF s.SetCustomStatus
                  THEN setCustomStatusFromCalendarView(p.c, v, s, fails)
                  ELSE [p EXCEPT !.changed = FALSE, !.err = FALSE]
             res == IF s.SetCustomStatus THEN q.msg ELSE p.msg
         IN [c |-> q.c,
             msg |-> IF res # "" THEN res ELSE "JSONBlock(calendarViews)",
             changed |-> Bit(p.changed)
                         + Bit(q.changed /\ CountsCustomChange(s)),
             failed |-> Bit(p.err) + Bit(q.err)]

\* the user is fetched when some setting needs the calendar (line 92)
NeedsSync(s) ==
    s.UpdateStatusFromOptions # NotSetStatusOption \/ s.ReceiveReminders \/ s.SetCustomStatus

\* the calls the settings can lead to (lines 211 and 227)
OpsOf(s) ==
    (IF s.UpdateStatusFromOptions # NotSetStatusOption
     THEN {"StoreUser", "UpdateMattermostUserStatus", "DMWithAttachments",
           "StoreUserActiveEvents"}
     ELSE {})
    \cup
    (IF s.SetCustomStatus
     THEN {"RemoveMattermostUserCustomStatus", "GetMattermostUser",
           "UpdateMattermostUserCustomStatus", "StoreUserCustomStatusUpdates"}
     ELSE {})

\* LastStatus as it was stored when ActiveEvents was last written with events in it
Recorded(cs, new, r) ==
    IF \E i \in 1..Len(cs) :
          cs[i].op = "StoreUserActiveEvents" /\ cs[i].ok /\ cs[i].arg # <<>>
    THEN new.LastStatus
    ELSE r

----------------------------------------------------------------------------
(* State machine *)

Settings ==
    [UpdateStatusFromOptions : StatusOptions, GetConfirmation : BOOLEAN,
     SetCustomStatus : BOOLEAN, ReceiveReminders : {FALSE}]

NoPre == [store |-> [LastStatus |-> "", ActiveEvents |-> <<>>, IsCustomStatusSet |-> FALSE],
          status |-> [Status |-> StatusOnline, Manual |-> FALSE],
          custom |-> NoCustomStatus,
          recorded |-> ""]
NoOut == [msg |-> "", changed |-> 0, failed |-> 0, processed |-> 0, error |-> FALSE]

NoPrev == [followed |-> FALSE, pre |-> NoPre, calls |-> <<>>, out |-> NoOut]

NoSummary == [failed |-> 0, changed |-> 0, processed |-> 0]
NoJob == [pc |-> "idle", filterOk |-> TRUE, indexRes |-> "ok", index |-> <<>>,
          viewsRes |-> "ok", views |-> <<>>, statusesOk |-> TRUE,
          msg |-> "", err |-> FALSE, summary |-> NoSummary, log |-> <<>>,
          loaded |-> {}, fetched |-> {}, notified |-> {}, reconciled |-> {}]
NoRem == [pc |-> "idle", phase |-> 0, now |-> 0, enabled |-> FALSE, calendar |-> <<>>,
          sent |-> {}, failed |-> FALSE]

\* an invocation that has not started: the User record it loaded, the presence it read,
\* the calls it still has to make
NoProc == [pc |-> "idle",
           mem |-> [LastStatus |-> "", ActiveEvents |-> <<>>, IsCustomStatusSet |-> FALSE],
           st |-> [Status |-> StatusOnline, Manual |-> FALSE],
           todo |-> <<>>]
Invocations == {"Sync", "SyncAll"}
NoProcs == [p \in Invocations |-> NoProc]

NoRequest == [userID |-> "", code |-> "", state |-> ""]
NoHttp == [pc |-> "idle", handler |-> "", users |-> {}, before |-> {}, req |-> NoRequest,
           env |-> {}, code |-> 0, body |-> "", hook |-> <<>>, posted |-> <<>>]

Init ==
    /\ settings \in Settings
    /\ store = [LastStatus |-> "", ActiveEvents |-> <<>>, IsCustomStatusSet |-> FALSE]
    /\ status = [Status |-> StatusOnline, Manual |-> FALSE]
    /\ custom = NoCustomStatus
    /\ recorded = ""
    /\ pc = "idle"
    /\ view = <<>>
    /\ pre = NoPre
    /\ calls = <<>>
    /\ out = NoOut
    /\ prev = NoPrev
    /\ job = NoJob
    /\ rem = NoRem
    /\ procs = NoProcs
    /\ http = NoHttp

\* syncUsers over the index of this user, the fetch answering with the events v
Cycle(v, fails) ==
    /\ NeedsSync(settings)
    /\ fails \subseteq OpsOf(settings)
    /\ \E r \in {setUserStatuses([mem |-> store, store |-> store, status |-> status,
                                  custom |-> custom, calls |-> <<>>],
                                 status, v, settings, fails)} :
        /\ store' = r.c.store
        /\ status' = r.c.status
        /\ custom' = r.c.custom
        /\ calls' = r.c.calls
        /\ out' = [msg |-> r.msg, changed |-> r.changed, failed |-> r.failed,
                   processed |-> 1, error |-> FALSE]
        /\ recorded' = Recorded(r.c.calls, r.c.store, recorded)
    /\ pc' = "done"
    /\ view' = v
    /\ pre' = [store |-> store, status |-> status, custom |-> custom, recorded |-> recorded]
    /\ UNCHANGED <<settings, aux>>

\* Sync(mattermostUserID) or SyncAll(): one cycle
Sync(v, fails) ==
    /\ pc = "idle"
    /\ Cycle(v, fails)
    /\ prev' = NoPrev

\* the next scheduled cycle finds the calendar and the platform as the last one left them
SyncAgain(fails) ==
    /\ pc = "done"
    /\ ~prev.followed
    /\ ~out.error
    /\ Cycle(view, fails)
    /\ prev' = [followed |-> TRUE, pre |-> pre, calls |-> calls, out |-> out]

\* the batched fetch answers with an error for this user (lines 193-202)
SyncViewError ==
    /\ pc = "idle"
    /\ NeedsSync(settings)
    /\ pc' = "done"
    /\ view' = <<>>
    /\ pre' = [store |-> store, status |-> status, custom |-> custom, recorded |-> recorded]
    /\ calls' = <<>>
    /\ out' = [msg |-> "JSONBlock(calendarViews)", changed |-> 0,
               failed |-> Bit(settings.UpdateStatusFromOptions # NotSetStatusOption
                              \/ settings.SetCustomStatus),
               processed |-> 1, error |-> TRUE]
    /\ prev' = NoPrev
    /\ UNCHANGED <<base, aux>>

\* the job hands its summary to the caller; nothing of the cycle is kept
Finish ==
    /\ pc = "done"
    /\ pc' = "idle"
    /\ view' = <<>>
    /\ pre' = NoPre
    /\ calls' = <<>>
    /\ out' = NoOut
    /\ prev' = NoPrev
    /\ UNCHANGED <<base, aux>>

\* the user sets a presence by hand, or answers a confirmation
UserSetsStatus(st) ==
    /\ pc = "idle"
    /\ status' = [Status |-> st, Manual |-> TRUE]
    /\ UNCHANGED <<settings, store, custom, recorded, cycle, aux>>

\* the platform changes the presence on activity
PlatformSetsStatus(st) ==
    /\ pc = "idle"
    /\ status' = [Status |-> st, Manual |-> FALSE]
    /\ UNCHANGED <<settings, store, custom, recorded, cycle, aux>>

\* the user writes a custom status of their own
UserSetsCustomStatus ==
    /\ pc = "idle"
    /\ custom' = UserCustomStatus
    /\ UNCHANGED <<settings, store, status, recorded, cycle, aux>>

\* the custom status expires or the user removes it
CustomStatusCleared ==
    /\ pc = "idle"
    /\ custom # NoCustomStatus
    /\ custom' = NoCustomStatus
    /\ UNCHANGED <<settings, store, status, recorded, cycle, aux>>

\* presence reconciliation: users without the custom status setting, calls may fail
InitStatus == Init /\ ~settings.SetCustomStatus

NextStatus ==
    \/ \E v \in Views, fails \in FailSets : Sync(v, fails)
    \/ SyncAgain({})
    \/ SyncViewError
    \/ Finish
    \/ \E st \in Statuses : UserSetsStatus(st)
    \/ \E st \in {StatusOnline, StatusAway, StatusOffline} : PlatformSetsStatus(st)

Spec == InitStatus /\ [][NextStatus]_vars

\* every combination of settings, presence and custom status together, no call fails
NextAll ==
    \/ \E v \in Views : Sync(v, {})
    \/ SyncAgain({})
    \/ SyncViewError
    \/ Finish
    \/ \E st \in Statuses : UserSetsStatus(st)
    \/ \E st \in {StatusOnline, StatusAway, StatusOffline} : PlatformSetsStatus(st)
    \/ UserSetsCustomStatus
    \/ CustomStatusCleared

SpecAll == Init /\ [][NextAll]_vars

\* custom status reconciliation alone: no status-update mode, calls may fail
InitCustom ==
    /\ Init
    /\ settings.UpdateStatusFromOptions = NotSetStatusOption
    /\ settings.SetCustomStatus

NextCustom ==
    \/ \E v \in Views, fails \in FailSets : Sync(v, fails)
    \/ SyncAgain({})
    \/ SyncViewError
    \/ Finish
    \/ UserSetsCustomStatus
    \/ CustomStatusCleared

SpecCustom == InitCustom /\ [][NextCustom]_vars

----------------------------------------------------------------------------
(* SyncAll over the whole user index.  Per user the run sees what the load, *)
(* the batched fetch and the two reconciliations answer; what the           *)
(* reconciliations do for one user is the model above.                       *)

logTruncateLimit == 5

\* an entry of the user index as LoadUser answers for it
IndexedUsers ==
    {[loadErr |-> TRUE, mode |-> FALSE, custom |-> FALSE, reminders |-> FALSE]}
    \cup [loadErr : {FALSE}, mode : BOOLEAN, custom : BOOLEAN, reminders : BOOLEAN]
UserIndexes == UNION {[1..n -> IndexedUsers] : n \in 0..MaxUsers}

\* (isStatusChanged, err) as a reconciliation returns them
Outcomes == {"none", "changed", "error", "changed-error"}
OutcomeChanged(o) == o \in {"changed", "changed-error"}
OutcomeError(o) == o \in {"error", "changed-error"}

\* the view of one fetched user: view.Error, or the events and what they lead to
ViewsOf(u) ==
    {[error |-> TRUE, p |-> "skip", c |-> "skip"]}
    \cup {[error |-> FALSE, p |-> x, c |-> y] :
            x \in (IF u.mode THEN Outcomes ELSE {"skip"}),
            y \in (IF u.custom THEN Outcomes ELSE {"skip"})}

\* user.Settings.UpdateStatusFromOptions != NotSetStatusOption || ReceiveReminders || SetCustomStatus
Eligible(u) == u.mode \/ u.reminders \/ u.custom

\* the warning, or the truncation notice, or nothing; numberOfLogs++
Warn(a, cat, i) ==
    [a EXCEPT !.log = IF a.nLogs < logTruncateLimit
                      THEN Append(@, [cat |-> cat, user |-> i])
                      ELSE IF a.nLogs = logTruncateLimit
                      THEN Append(@, [cat |-> "truncated", user |-> 0])
                      ELSE @,
              !.nLogs = @ + 1]

\* lines 77-95: the users of the index that load and need the calendar
RECURSIVE LoadUsers(_, _, _)
LoadUsers(index, k, a) ==
    IF k > Len(index) THEN a
    ELSE LoadUsers(index, k + 1,
            IF index[k].loadErr
            THEN Warn([a EXCEPT !.failed = @ + 1], "load", k)
            ELSE IF Eligible(index[k])
            THEN [a EXCEPT !.users = Append(@, k), !.loaded = @ \cup {k}]
            ELSE [a EXCEPT !.loaded = @ \cup {k}])

\* lines 138-155
RECURSIVE RemindLoop(_, _, _, _)
RemindLoop(index, views, j, a) ==
    IF j > Len(views) THEN a
    ELSE LET i == a.users[j]
         IN RemindLoop(index, views, j + 1,
                IF ~index[i].reminders THEN a
                ELSE IF views[j].error THEN Warn(a, "fetch", i)
                ELSE [a EXCEPT !.notified = @ \cup {i}])

deliverReminders(index, views, a) ==
    IF \A j \in 1..Len(a.users) : ~index[a.users[j]].reminders THEN a
    ELSE RemindLoop(index, views, 1, [a EXCEPT !.nLogs = 0])

\* an error that is logged but not counted
CountStatusError_Uncounted(a, cat, i) == Warn(a, cat, i)

\* lines 193-202, 213-220, 229-236: the warning and numberOfUserErrorInStatusChange++
CountStatusError(a, cat, i) == Warn([a EXCEPT !.failed = @ + 1], cat, i)

\* lines 210-243: the two reconciliations of one user
ReconcileUser(u, i, o, a) ==
    LET a1 == IF u.mode /\ OutcomeError(o.p) THEN CountStatusError(a, "status", i) ELSE a
        a2 == IF u.mode /\ OutcomeChanged(o.p) THEN [a1 EXCEPT !.changed = @ + 1] ELSE a1
        a3 == IF u.custom /\ OutcomeError(o.c) THEN CountStatusError(a2, "status", i) ELSE a2
        a4 == IF u.custom /\ OutcomeChanged(o.c) /\ ~u.mode
              THEN [a3 EXCEPT !.changed = @ + 1] ELSE a3
    IN [a4 EXCEPT !.reconciled = @ \cup {i}]

\* lines 187-244
RECURSIVE StatusLoop(_, _, _, _)
StatusLoop(index, views, j, a) ==
    IF j > Len(views) THEN a
    ELSE LET i == a.users[j]
             u == index[i]
         IN StatusLoop(index, views, j + 1,
                IF ~(u.mode \/ u.custom) THEN a
                ELSE IF views[j].error THEN CountStatusError(a, "fetch", i)
                ELSE ReconcileUser(u, i, views[j], a))

\* setUserStatuses(users, calendarViews) over all users: [a, msg, err]
setUserStatusesOfAll(index, views, statusesOk, a) ==
    IF \A j \in 1..Len(a.users) : ~(index[a.users[j]].mode \/ index[a.users[j]].custom)
    THEN [a |-> a, msg |-> "No users want their status updated", err |-> FALSE]
    ELSE IF ~statusesOk
    THEN [a |-> a, msg |-> "", err |-> TRUE]
    ELSE [a |-> StatusLoop(index, views, 1, [a EXCEPT !.nLogs = 0]),
          msg |-> "JSONBlock(calendarViews)", err |-> FALSE]

NoAcc == [log |-> <<>>, nLogs |-> 0, failed |-> 0, changed |-> 0, users |-> <<>>,
          loaded |-> {}, fetched |-> {}, notified |-> {}, reconciled |-> {}]

\* syncUsers(userIndex): [a, msg, err, processed]
syncUsers(index, viewsRes, views, statusesOk) ==
    IF Len(index) = 0
    THEN [a |-> NoAcc, msg |-> "No connected users found", err |-> FALSE, processed |-> 0]
    ELSE LET a1 == LoadUsers(index, 1, NoAcc)
             a2 == [a1 EXCEPT !.fetched = Range(a1.users)]
         IN IF a1.users = <<>>
            THEN [a |-> a1, msg |-> "No users need to be synced", err |-> FALSE,
                  processed |-> Len(index)]
            ELSE IF viewsRes = "error"
            THEN [a |-> a1, msg |-> "", err |-> TRUE, processed |-> Len(index)]
            ELSE IF viewsRes = "empty"
            THEN [a |-> a2, msg |-> "No calendar views found", err |-> FALSE,
                  processed |-> Len(index)]
            ELSE LET r == setUserStatusesOfAll(index, views, statusesOk,
                                               deliverReminders(index, views, a2))
                 IN IF r.err
                    THEN [a |-> [r.a EXCEPT !.changed = 0], msg |-> "", err |-> TRUE,
                          processed |-> Len(index)]
                    ELSE [a |-> r.a, msg |-> r.msg, err |-> FALSE,
                          processed |-> Len(index)]

\* the views a fetch can answer with for the users that were loaded
RECURSIVE ViewSeqs(_, _, _)
ViewSeqs(index, users, plain) ==
    IF users = <<>> THEN {<<>>}
    ELSE {<<o>> \o rest :
            o \in {x \in ViewsOf(index[Head(users)]) :
                      plain => (x.p \in {"skip", "none"} /\ x.c \in {"skip", "none"})},
            rest \in ViewSeqs(index, Tail(users), plain)}

\* err.Error() == "not found" is not an error of SyncAll (line 59)
IndexErrorAborts_Always(reason) == TRUE

IndexErrorAborts(reason) == reason # "not found"

\* SyncAll stops before syncUsers: the filter or the user index fails (lines 52-63)
SyncAllStops(filterOk, indexRes) ==
    /\ job.pc = "idle"
    /\ ~filterOk \/ indexRes # "ok"
    /\ filterOk \/ indexRes = "ok"
    /\ job' = [NoJob EXCEPT
                 !.pc = "done", !.filterOk = filterOk, !.indexRes = indexRes,
                 !.msg = IF filterOk /\ ~IndexErrorAborts(indexRes)
                         THEN "No users found in user index" ELSE "",
                 !.err = ~filterOk \/ IndexErrorAborts(indexRes)]
    /\ UNCHANGED <<base, cycle, rem, procs, http>>

\* SyncAll reaches syncUsers (line 65)
SyncAll(index, viewsRes, views, statusesOk) ==
    /\ job.pc = "idle"
    /\ \E r \in {syncUsers(index, viewsRes, views, statusesOk)} :
         job' = [pc |-> "done", filterOk |-> TRUE, indexRes |-> "ok", index |-> index,
                 viewsRes |-> viewsRes, views |-> views, statusesOk |-> statusesOk,
                 msg |-> r.msg, err |-> r.err,
                 summary |-> [failed |-> r.a.failed, changed |-> r.a.changed,
                              processed |-> r.processed],
                 log |-> r.a.log, loaded |-> r.a.loaded, fetched |-> r.a.fetched,
                 notified |-> r.a.notified, reconciled |-> r.a.reconciled]
    /\ UNCHANGED <<base, cycle, rem, procs, http>>

\* the job hands the summary to its caller
JobReturns ==
    /\ job.pc = "done"
    /\ job' = NoJob
    /\ UNCHANGED <<base, cycle, rem, procs, http>>

EligibleOf(index) == LoadUsers(index, 1, NoAcc).users

InitBatch ==
    /\ Init
    /\ settings = [UpdateStatusFromOptions |-> NotSetStatusOption, GetConfirmation |-> FALSE,
                   SetCustomStatus |-> FALSE, ReceiveReminders |-> FALSE]

NextBatch ==
    \/ \E filterOk \in BOOLEAN, indexRes \in {"ok", "not found", "error"} :
          SyncAllStops(filterOk, indexRes)
    \/ job.pc = "idle" /\ \E index \in UserIndexes :
          \/ \E views \in ViewSeqs(index, EligibleOf(index), FALSE) :
                SyncAll(index, "ok", views, TRUE)
          \/ /\ \E j \in DOMAIN index : index[j].mode \/ index[j].custom
             /\ \E views \in ViewSeqs(index, EligibleOf(index), TRUE) :
                   SyncAll(index, "ok", views, FALSE)
          \/ /\ EligibleOf(index) # <<>>
             /\ \E viewsRes \in {"error", "empty"} : SyncAll(index, viewsRes, <<>>, TRUE)
    \/ JobReturns

SpecBatch == InitBatch /\ [][NextBatch]_vars

----------------------------------------------------------------------------
(* Reminder delivery.  Time is counted in quarter minutes.                  *)

StatusSyncJobInterval == 20
calendarViewTimeWindowSize == 40
upcomingEventNotificationTime == 40

\* a tolerance of one interval only
upcomingEventNotificationWindow_OneInterval == StatusSyncJobInterval

\* (StatusSyncJobInterval * 11) / 10
upcomingEventNotificationWindow == (StatusSyncJobInterval * 11) \div 10

\* an event of the calendar; Created is when it appeared in the calendar
ReminderEvents ==
    UNION {{[Start |-> st, End |-> st + 1, Created |-> cr, IsCancelled |-> x] :
               cr \in {0, st - upcomingEventNotificationTime,
                        st - upcomingEventNotificationTime + 1},
               x \in BOOLEAN} : st \in 0..MaxClock}
Calendars ==
    UNION {[1..n -> {e \in ReminderEvents : e.Created >= 0}] : n \in 1..MaxReminderEvents}

ReminderFailures == {"none", "GetTimezoneByID", "RenderUpcomingEvent", "DM", "view.Error"}

\* the events the batched request answers with for [start, end): indices into the calendar
RECURSIVE CalendarView(_, _, _, _)
CalendarView(calendar, k, start, end) ==
    IF k > Len(calendar) THEN <<>>
    ELSE LET e == calendar[k]
             rest == CalendarView(calendar, k + 1, start, end)
         IN IF e.Created <= start /\ e.Start < end /\ e.End > start
            THEN <<k>> \o rest ELSE rest

\* notifyUpcomingEvents(mattermostUserID, events) at time now: [sent, failed]
RECURSIVE notifyUpcomingEvents(_, _, _, _, _)
notifyUpcomingEvents(calendar, events, now, fail, a) ==
    IF events = <<>> THEN a
    ELSE LET k == Head(events)
             event == calendar[k]
             diff == event.Start - (now + upcomingEventNotificationTime)
         IN IF event.IsCancelled
            THEN notifyUpcomingEvents(calendar, Tail(events), now, fail, a)
            ELSE IF diff < upcomingEventNotificationWindow
                    /\ diff > -upcomingEventNotificationWindow
            THEN IF fail = "GetTimezoneByID" THEN [a EXCEPT !.failed = TRUE]
                 ELSE IF fail \in {"RenderUpcomingEvent", "DM"}
                 THEN notifyUpcomingEvents(calendar, Tail(events), now, fail,
                                           [a EXCEPT !.failed = TRUE])
                 ELSE notifyUpcomingEvents(calendar, Tail(events), now, fail,
                                           [a EXCEPT !.sent = @ \cup {<<k, now>>}])
            ELSE notifyUpcomingEvents(calendar, Tail(events), now, fail, a)

\* the job is activated at some phase, for a user with this calendar
ActivateJob(phase, calendar, enabled) ==
    /\ rem.pc = "idle"
    /\ rem' = [pc |-> "run", phase |-> phase, now |-> phase, enabled |-> enabled,
               calendar |-> calendar, sent |-> {}, failed |-> FALSE]
    /\ UNCHANGED <<base, cycle, job, procs, http>>

\* one cycle at rem.now: GetCalendarViews, deliverReminders; the next one is an interval later
ReminderCycle(fail) ==
    /\ rem.pc = "run"
    /\ rem.now <= MaxClock
    /\ \E r \in {IF ~rem.enabled THEN [sent |-> rem.sent, failed |-> rem.failed]
                 ELSE IF fail = "view.Error" THEN [sent |-> rem.sent, failed |-> TRUE]
                 ELSE notifyUpcomingEvents(
                         rem.calendar,
                         CalendarView(rem.calendar, 1, rem.now,
                                      rem.now + calendarViewTimeWindowSize),
                         rem.now, fail, [sent |-> rem.sent, failed |-> rem.failed])} :
         rem' = [rem EXCEPT !.sent = r.sent, !.failed = r.failed,
                            !.now = @ + StatusSyncJobInterval]
    /\ UNCHANGED <<base, cycle, job, procs, http>>

NextReminders ==
    \/ rem.pc = "idle" /\ \E phase \in 0..(StatusSyncJobInterval - 1), calendar \in Calendars,
                             enabled \in BOOLEAN : ActivateJob(phase, calendar, enabled)
    \/ \E fail \in ReminderFailures : ReminderCycle(fail)

SpecReminders == InitBatch /\ [][NextReminders]_vars

----------------------------------------------------------------------------
(* A DND-mode user without confirmation whose views hold at most one        *)
(* meeting, with any number of attendees up to MaxAttendees.                *)

MeetingViews ==
    {<<>>} \cup
    {<<e>> : e \in {m \in [ICalUID : UIDs, Start : Times, End : Times, ShowAs : {"busy"},
                           IsCancelled : BOOLEAN, Attendees : 0..MaxAttendees] :
                       m.Start < m.End}}

InitDnd ==
    /\ Init
    /\ settings = [UpdateStatusFromOptions |-> DNDStatusOption, GetConfirmation |-> FALSE,
                   SetCustomStatus |-> FALSE, ReceiveReminders |-> FALSE]

NextDnd ==
    \/ \E v \in MeetingViews, fails \in FailSets : Sync(v, fails)
    \/ SyncAgain({})
    \/ SyncViewError
    \/ Finish
    \/ \E st \in Statuses : UserSetsStatus(st)
    \/ \E st \in {StatusOnline, StatusAway, StatusOffline} : PlatformSetsStatus(st)

SpecDnd == InitDnd /\ [][NextDnd]_vars

----------------------------------------------------------------------------
(* A manual Sync(user) and a scheduled SyncAll running at once for the user *)
(* over the same view.  Each loads the User record, reads the presence,     *)
(* decides, and makes its calls one at a time.                              *)

\* both invocations are started; the fetch answers both with the events v
InvocationsStart(v) ==
    /\ pc = "idle"
    /\ pc' = "racing"
    /\ view' = v
    /\ pre' = [store |-> store, status |-> status, custom |-> custom, recorded |-> recorded]
    /\ procs' = [p \in Invocations |-> [NoProc EXCEPT !.pc = "start"]]
    /\ UNCHANGED <<base, calls, out, prev, job, rem, http>>

\* syncUsers: m.Store.LoadUser (lines 77-95)
LoadUser(p) ==
    /\ procs[p].pc = "start"
    /\ procs' = [procs EXCEPT ![p].pc = "loaded", ![p].mem = store]
    /\ UNCHANGED <<base, cycle, job, rem, http>>

\* setUserStatuses: GetMattermostUserStatusesByIds (lines 177-184), then
\* setStatusFromCalendarView decides on the loaded record and the presence read
ReadStatus(p) ==
    /\ procs[p].pc = "loaded"
    /\ \E r \in {setStatusFromCalendarView(
                    [mem |-> procs[p].mem, store |-> procs[p].mem, status |-> status,
                     custom |-> custom, calls |-> <<>>],
                    status, view, settings, {})} :
         procs' = [procs EXCEPT ![p].st = status,
                                ![p].todo = r.c.calls,
                                ![p].pc = IF r.c.calls = <<>> THEN "done" ELSE "calls"]
    /\ UNCHANGED <<base, cycle, job, rem, http>>

\* the next call of the invocation reaches the store or the platform
MakeCall(p) ==
    /\ procs[p].pc = "calls"
    /\ LET call == Head(procs[p].todo)
       IN /\ store' = IF call.op = "StoreUser"
                      THEN [procs[p].mem EXCEPT !.LastStatus = call.arg]
                      ELSE IF call.op = "StoreUserActiveEvents"
                      THEN [store EXCEPT !.ActiveEvents = call.arg]
                      ELSE store
          /\ status' = IF call.op = "UpdateMattermostUserStatus"
                       THEN [Status |-> call.arg, Manual |-> TRUE]
                       ELSE status
    /\ procs' = [procs EXCEPT ![p].todo = Tail(@),
                              ![p].pc = IF Len(procs[p].todo) = 1 THEN "done" ELSE "calls"]
    /\ UNCHANGED <<settings, custom, recorded, cycle, job, rem, http>>

\* both invocations have returned
InvocationsReturn ==
    /\ pc = "racing"
    /\ \A p \in Invocations : procs[p].pc = "done"
    /\ pc' = "idle"
    /\ view' = <<>>
    /\ pre' = NoPre
    /\ procs' = NoProcs
    /\ UNCHANGED <<base, calls, out, prev, job, rem, http>>

InitRace ==
    /\ Init
    /\ settings.UpdateStatusFromOptions \in {AwayStatusOption, DNDStatusOption}
    /\ ~settings.GetConfirmation /\ ~settings.SetCustomStatus

NextRace ==
    \/ \E v \in Views : InvocationsStart(v)
    \/ \E p \in Invocations : LoadUser(p)
    \/ \E p \in Invocations : ReadStatus(p)
    \/ \E p \in Invocations : MakeCall(p)
    \/ InvocationsReturn
    \/ \E st \in Statuses : UserSetsStatus(st)
    \/ \E st \in {StatusOnline, StatusAway, StatusOffline} : PlatformSetsStatus(st)

SpecRace == InitRace /\ [][NextRace]_vars

----------------------------------------------------------------------------
(* The OAuth2 completion handler, GET /oauth2/complete.                     *)

StatusOK == 200
StatusBadRequest == 400
StatusUnauthorized == 401
StatusInternalServerError == 500

MattermostUserIDs == {"fake@mattermost.com", "other@mattermost.com"}
\* the states a request can carry, and the user ID each was issued for
OAuth2States == {"", "user_fake@mattermost.com", "user_nomatch@mattermost.com",
                 "user_other@mattermost.com"}
StateUserID(state) ==
    CASE state = "user_fake@mattermost.com" -> "fake@mattermost.com"
      [] state = "user_other@mattermost.com" -> "other@mattermost.com"
      [] state = "user_nomatch@mattermost.com" -> "nomatch@mattermost.com"
      [] OTHER -> ""

Requests ==
    [userID : MattermostUserIDs \cup {""}, code : {"", "fakecode"}, state : OAuth2States]

\* what can go wrong outside the handler
OAuth2Failures == {"VerifyOAuth2State", "Exchange", "GetMe", "StoreUser"}

\* the table of TestOauth2Complete: request, failing collaborators, expected code
tcs ==
    {[name |-> "unauthorized user",
      r |-> [userID |-> "", code |-> "", state |-> ""],
      failing |-> {"Exchange"},
      expectedHTTPCode |-> StatusUnauthorized],
     [name |-> "missing authorization code",
      r |-> [userID |-> "fake@mattermost.com", code |-> "", state |-> ""],
      failing |-> {"Exchange"},
      expectedHTTPCode |-> StatusBadRequest],
     [name |-> "missing state",
      r |-> [userID |-> "fake@mattermost.com", code |-> "fakecode", state |-> ""],
      failing |-> {"VerifyOAuth2State", "Exchange"},
      expectedHTTPCode |-> StatusBadRequest],
     [name |-> "user state not authorized",
      r |-> [userID |-> "fake@mattermost.com", code |-> "fakecode",
             state |-> "user_nomatch@mattermost.com"],
      failing |-> {"Exchange"},
      expectedHTTPCode |-> StatusUnauthorized],
     [name |-> "unable to exchange auth code for token",
      r |-> [userID |-> "fake@mattermost.com", code |-> "fakecode",
             state |-> "user_fake@mattermost.com"],
      failing |-> {"Exchange"},
      expectedHTTPCode |-> StatusInternalServerError],
     [name |-> "microsoft graph api client unable to get user info",
      r |-> [userID |-> "fake@mattermost.com", code |-> "fakecode",
             state |-> "user_fake@mattermost.com"],
      failing |-> {"GetMe"},
      expectedHTTPCode |-> StatusInternalServerError],
     [name |-> "UserStore unable to store user info",
      r |-> [userID |-> "fake@mattermost.com", code |-> "fakecode",
             state |-> "user_fake@mattermost.com"],
      failing |-> {"StoreUser"},
      expectedHTTPCode |-> StatusInternalServerError],
     [name |-> "successfully completed oauth2 login",
      r |-> [userID |-> "fake@mattermost.com", code |-> "fakecode",
             state |-> "user_fake@mattermost.com"],
      failing |-> {},
      expectedHTTPCode |-> StatusOK]}

Respond(code, body, users) == [code |-> code, body |-> body, users |-> users]

\* a handler that looks at the authorization code before the user
oauth2Complete_CodeFirst(r, failing, users) ==
    IF r.code = "" THEN Respond(StatusBadRequest, "missing authorization code", users)
    ELSE IF r.userID = "" THEN Respond(StatusUnauthorized, "Not authorized", users)
    ELSE IF "VerifyOAuth2State" \in failing
    THEN Respond(StatusBadRequest, "missing stored state", users)
    ELSE IF StateUserID(r.state) # r.userID
    THEN Respond(StatusUnauthorized, "Not authorized, user ID mismatch.", users)
    ELSE IF "Exchange" \in failing
    THEN Respond(StatusInternalServerError, "cannot fetch token", users)
    ELSE IF "GetMe" \in failing
    THEN Respond(StatusInternalServerError, "Request to /me returned error", users)
    ELSE IF "StoreUser" \in failing
    THEN Respond(StatusInternalServerError, "Unable to connect", users)
    ELSE Respond(StatusOK, "Completed connecting", users \cup {r.userID})

\* oauth2Complete(w, r): the response and the user records stored afterwards
oauth2Complete(r, failing, users) ==
    IF r.userID = "" THEN Respond(StatusUnauthorized, "Not authorized", users)
    ELSE IF r.code = "" THEN Respond(StatusBadRequest, "missing authorization code", users)
    ELSE IF "VerifyOAuth2State" \in failing
    THEN Respond(StatusBadRequest, "missing stored state", users)
    ELSE IF StateUserID(r.state) # r.userID
    THEN Respond(StatusUnauthorized, "Not authorized, user ID mismatch.", users)
    ELSE IF "Exchange" \in failing
    THEN Respond(StatusInternalServerError, "cannot fetch token", users)
    ELSE IF "GetMe" \in failing
    THEN Respond(StatusInternalServerError, "Request to /me returned error", users)
    ELSE IF "StoreUser" \in failing
    THEN Respond(StatusInternalServerError, "Unable to connect", users)
    ELSE Respond(StatusOK, "Completed connecting", users \cup {r.userID})

\* the router hands a GET /oauth2/complete to the handler
OAuth2Complete(r, failing) ==
    /\ http.pc = "idle"
    /\ \E a \in {oauth2Complete(r, failing, http.users)} :
         http' = [http EXCEPT !.pc = "served", !.handler = "oauth2Complete",
                              !.before = http.users, !.users = a.users,
                              !.req = r, !.env = failing,
                              !.code = a.code, !.body = a.body]
    /\ UNCHANGED <<base, cycle, job, rem, procs>>

\* the response is written; the stored users stay
ResponseWritten ==
    /\ http.pc = "served"
    /\ http' = [NoHttp EXCEPT !.users = http.users]
    /\ UNCHANGED <<base, cycle, job, rem, procs>>

NextOAuth2 ==
    \/ \E r \in Requests, failing \in SUBSET OAuth2Failures : OAuth2Complete(r, failing)
    \/ ResponseWritten

SpecOAuth2 == InitBatch /\ [][NextOAuth2]_vars

----------------------------------------------------------------------------
(* The webhook handler, webhookEvent.                                       *)

Creators == {"u1", "u2"}
People == Creators \cup {"x"}
SubscriptionIDs == {"s1", "s2"}

\* SubscriptionStore: the creator of each stored subscription, "" when it is not stored
SubscriptionStores == [SubscriptionIDs -> Creators \cup {""}]
\* UserStore: Settings.EventSubscriptionID of each creator
EventSubscriptions == [Creators -> SubscriptionIDs]

\* a notification of the request: its subscription and the event it is about
Webhooks ==
    [SubscriptionID : SubscriptionIDs, Organizer : People, Attendees : SUBSET Creators]
WebhookRequests == UNION {[1..n -> Webhooks] : n \in 1..MaxNotifications}

IsOrphaned_Never(subID, creator, settingsOf) == FALSE

\* sub.Remote.ID != creator.Settings.EventSubscriptionID (line 28)
IsOrphaned(subID, creator, settingsOf) == subID # settingsOf[creator]

\* the callback given to ProcessEventWebhook (lines 19-32): the creator, or an error
LoadSubscriptionCreator(subID, subs, settingsOf) ==
    IF subs[subID] = "" THEN [err |-> "not found", creator |-> ""]
    ELSE IF IsOrphaned(subID, subs[subID], settingsOf)
    THEN [err |-> "Subscription is orphaned", creator |-> ""]
    ELSE [err |-> "", creator |-> subs[subID]]

\* h.Remote.ProcessEventWebhook: the notifications of the request whose callback
\* succeeded; after an error of the callback it goes on with the next or gives up
RECURSIVE ProcessEventWebhook(_, _, _, _, _)
ProcessEventWebhook(hook, k, subs, settingsOf, onError) ==
    IF k > Len(hook) THEN <<>>
    ELSE LET l == LoadSubscriptionCreator(hook[k].SubscriptionID, subs, settingsOf)
         IN IF l.err # ""
            THEN IF onError = "give up" THEN <<>>
                 ELSE ProcessEventWebhook(hook, k + 1, subs, settingsOf, onError)
            ELSE <<[n |-> k, Creator |-> l.creator, Event |-> hook[k]]>>
                 \o ProcessEventWebhook(hook, k + 1, subs, settingsOf, onError)

\* the loop of lines 34-55: [posted, code]; the post of notification failAt fails
RECURSIVE PostNotifications(_, _, _)
PostNotifications(notifications, failAt, posted) ==
    IF notifications = <<>> THEN [posted |-> posted, code |-> 0]   \* nothing more is written
    ELSE LET n == Head(notifications)
             isAttendee == n.Creator \in n.Event.Attendees
             isOrganizer == n.Event.Organizer = n.Creator
         IN IF ~isAttendee /\ ~isOrganizer
            THEN PostNotifications(Tail(notifications), failAt, posted)
            ELSE IF n.n = failAt
            THEN [posted |-> posted, code |-> StatusInternalServerError]
            ELSE PostNotifications(Tail(notifications), failAt,
                                   Append(posted, [to |-> n.Creator, n |-> n.n]))

\* webhookEvent(w, req)
WebhookEvent(hook, subs, settingsOf, onError, failAt) ==
    /\ http.pc = "idle"
    /\ \E a \in {PostNotifications(ProcessEventWebhook(hook, 1, subs, settingsOf, onError),
                                   failAt, <<>>)} :
         http' = [http EXCEPT !.pc = "served", !.handler = "webhookEvent",
                              !.hook = hook,
                              !.env = [subs |-> subs, settingsOf |-> settingsOf,
                                       onError |-> onError, failAt |-> failAt],
                              !.code = a.code, !.posted = a.posted]
    /\ UNCHANGED <<base, cycle, job, rem, procs>>

NextWebhook ==
    \/ /\ http.pc = "idle"
       /\ \E hook \in WebhookRequests, subs \in SubscriptionStores,
             settingsOf \in EventSubscriptions, onError \in {"go on", "give up"},
             failAt \in 0..MaxNotifications :
                WebhookEvent(hook, subs, settingsOf, onError, failAt)
    \/ ResponseWritten

SpecWebhook == InitBatch /\ [][NextWebhook]_vars

----------------------------------------------------------------------------
(* Vocabulary of the properties: a returned cycle, read from the claims'   *)
(* words and not from the handler's helpers.                                *)

Returned == pc = "done" /\ ~out.error
ModeSet == settings.UpdateStatusFromOptions \in {AwayStatusOption, DNDStatusOption}
ConfiguredBusy == IF settings.UpdateStatusFromOptions = AwayStatusOption THEN StatusAway ELSE StatusDnd
OfflineSkip == pre.status.Status = StatusOffline /\ ~settings.GetConfirmation

BusyIdx == {i \in DOMAIN view : view[i].ShowAs = "busy"}
LiveIdx == {i \in BusyIdx : ~view[i].IsCancelled}
ViewFingerprints == {<<view[i].ICalUID, view[i].Start>> : i \in LiveIdx}
ViewOverlaps ==
    \E i, j \in BusyIdx :
        i # j /\ view[i].Start <= view[j].Start /\ view[j].Start < view[i].End
EarliestHasAttendees ==
    \A i \in BusyIdx :
        (\A j \in BusyIdx : view[i].Start <= view[j].Start) => view[i].Attendees >= 1
Qualifying == BusyIdx # {} /\ ~ViewOverlaps /\ EarliestHasAttendees

WasBusy == pre.store.ActiveEvents # <<>>
StoredSet == Range(pre.store.ActiveEvents)

CalledOps == {calls[i].op : i \in DOMAIN calls}
AllOk == \A i \in DOMAIN calls : calls[i].ok
PresenceOps == {"StoreUser", "UpdateMattermostUserStatus", "DMWithAttachments",
                "StoreUserActiveEvents"}
CustomOps == {"RemoveMattermostUserCustomStatus", "UpdateMattermostUserCustomStatus",
              "StoreUserCustomStatusUpdates"}
Untouched == store = pre.store /\ status = pre.status /\ custom = pre.custom

----------------------------------------------------------------------------
C2_SecondCycleWritesNothing ==
    (Returned /\ prev.followed /\ ~prev.out.error /\ ~settings.SetCustomStatus
     /\ \A i \in DOMAIN prev.calls : prev.calls[i].ok)
    => calls = <<>>

(* C3: when the busy events of the view overlap, the cycle changes neither  *)
(* presence nor custom status and writes nothing to the User Store,         *)
(* whatever the settings, the stored ActiveEvents and the current status.   *)
C3_OverlapIsNoOp ==
    (Returned /\ ViewOverlaps) => (calls = <<>> /\ Untouched /\ out.changed = 0)

C3_Witness ==
    /\ Returned /\ ViewOverlaps /\ ModeSet /\ settings.SetCustomStatus
    /\ WasBusy /\ pre.store.IsCustomStatusSet
    /\ pre.status.Status = StatusOnline
    /\ \E i, j \in BusyIdx : view[i].Start < view[j].Start /\ view[j].Start < view[i].End
    /\ calls = <<>>

(* C4: a busy event with zero attendees never causes a busy transition:     *)
(* when the only non-cancelled busy events of the view have zero attendees, *)
(* the cycle neither sets or asks for the busy status nor records a         *)
(* fingerprint in ActiveEvents, also when the zero-attendee event is not    *)
(* the earliest busy event.                                                  *)
C4_ZeroAttendeesNeverBusy ==
    (/\ Returned /\ ModeSet
     /\ LiveIdx # {}
     /\ \A i \in LiveIdx : view[i].Attendees = 0)
    => /\ \A k \in DOMAIN calls :
            /\ ~(calls[k].op \in {"UpdateMattermostUserStatus", "DMWithAttachments"}
                 /\ calls[k].arg = ConfiguredBusy)
            /\ ~(calls[k].op = "StoreUserActiveEvents" /\ calls[k].arg # <<>>)
       /\ Range(store.ActiveEvents) \subseteq StoredSet

(* C5 as claimed: with empty stored ActiveEvents and no busy event in the   *)
(* view, the cycle leaves presence and custom status unchanged and writes   *)
(* nothing, whatever the settings and IsCustomStatusSet.                     *)
C5_FreeToFreeUntouched ==
    (Returned /\ ~WasBusy /\ BusyIdx = {}) => (calls = <<>> /\ Untouched)

(* C5 as amended: with empty stored ActiveEvents and no busy event in the   *)
(* view, the cycle leaves the presence unchanged and writes neither the     *)
(* User record nor ActiveEvents; it leaves the custom status alone and      *)
(* writes nothing at all unless custom status is enabled and                *)
(* IsCustomStatusSet is true: then it removes the custom status and stores  *)
(* IsCustomStatusSet = false, after which repeating the cycle changes       *)
(* nothing.                                                                  *)
C5_FreeToFreeClearsOnlySystemCustom ==
    (Returned /\ ~WasBusy /\ BusyIdx = {})
    => /\ CalledOps \cap PresenceOps = {}
       /\ status = pre.status
       /\ store.LastStatus = pre.store.LastStatus
       /\ store.ActiveEvents = pre.store.ActiveEvents
       /\ IF settings.SetCustomStatus /\ pre.store.IsCustomStatusSet
          THEN (AllOk => custom = NoCustomStatus /\ ~store.IsCustomStatusSet)
          ELSE calls = <<>> /\ Untouched
       /\ prev.followed => (calls = <<>> /\ Untouched)

C5_Witness ==
    /\ Returned /\ ~WasBusy /\ BusyIdx = {} /\ view # <<>>
    /\ ModeSet /\ settings.SetCustomStatus
    /\ prev.followed
    /\ prev.pre.store.IsCustomStatusSet /\ prev.pre.custom = MeetingCustomStatus
    /\ "RemoveMattermostUserCustomStatus" \in {prev.calls[i].op : i \in DOMAIN prev.calls}
    /\ calls = <<>>

(* C6: while the user is busy and the view still has qualifying events, the *)
(* cycle is a no-op exactly when the fetched fingerprints and the stored    *)
(* ActiveEvents are the same set; when they differ in either direction      *)
(* ActiveEvents is rewritten to the fetched set, and the busy status or the *)
(* confirmation is asserted again if the presence is not the busy status.   *)
C6_NoOpExactlyWhenSetsEqual ==
    (/\ Returned /\ ModeSet /\ ~OfflineSkip /\ AllOk
     /\ WasBusy /\ Qualifying /\ ViewFingerprints # {})
    => /\ (calls = <<>>) <=> (ViewFingerprints = StoredSet)
       /\ ViewFingerprints # StoredSet
            => /\ Range(store.ActiveEvents) = ViewFingerprints
               /\ pre.status.Status # ConfiguredBusy
                    => CalledOps \cap {"UpdateMattermostUserStatus", "DMWithAttachments"} # {}

C8_ConfirmationNeverWritesPresence ==
    (pc = "done" /\ settings.GetConfirmation)
    => /\ "UpdateMattermostUserStatus" \notin CalledOps
       /\ status = pre.status
       /\ out.changed = 1 => "DMWithAttachments" \in CalledOps

C8_Witness ==
    /\ Returned /\ settings.GetConfirmation /\ WasBusy /\ BusyIdx = {}
    /\ pre.store.LastStatus = StatusAway
    /\ \E k \in DOMAIN calls :
          calls[k].op = "DMWithAttachments" /\ calls[k].ok /\ calls[k].arg = StatusAway
    /\ out.changed = 1

(* C9: in setStatusOrAskUser the User record is persisted before the        *)
(* presence write and before the confirmation; when the persist fails       *)
(* neither happens; and when a later step fails, the LastStatus persisted   *)
(* is the previous manually set status of the user.  Stated for users       *)
(* without the confirmation setting.                                         *)
C9_PersistedLastStatusIsPreviousManual ==
    (pc = "done" /\ ModeSet /\ ~settings.GetConfirmation /\ pre.recorded # ConfiguredBusy)
    => \A k \in DOMAIN calls :
          calls[k].op \in {"UpdateMattermostUserStatus", "DMWithAttachments"}
          => /\ \E j \in 1..(k-1) : calls[j].op = "StoreUser" /\ calls[j].ok
             /\ ~calls[k].ok
                  => store.LastStatus =
                        (IF BusyIdx = {} THEN pre.recorded
                         ELSE IF pre.status.Manual THEN pre.status.Status ELSE "")

(* C10: in a cycle with empty stored ActiveEvents and qualifying events     *)
(* where the presence already is the configured busy status, there is no    *)
(* presence write and no confirmation, the status-changed counter stays 0,  *)
(* and ActiveEvents is stored as the fingerprints of the fetched events.    *)
C10_AlreadyBusyOnlyRecordsEvents ==
    (/\ Returned /\ ModeSet /\ ~WasBusy /\ Qualifying
     /\ pre.status.Status = ConfiguredBusy)
    => /\ CalledOps \cap {"UpdateMattermostUserStatus", "DMWithAttachments"} = {}
       /\ status = pre.status
       /\ out.changed = 0
       /\ \E k \in DOMAIN calls :
             /\ calls[k].op = "StoreUserActiveEvents"
             /\ Range(calls[k].arg) = ViewFingerprints
             /\ calls[k].ok => Range(store.ActiveEvents) = ViewFingerprints

C10_Witness ==
    /\ Returned /\ ModeSet /\ ~WasBusy /\ Qualifying
    /\ pre.status.Status = ConfiguredBusy
    /\ Cardinality(ViewFingerprints) = 2
    /\ Range(store.ActiveEvents) = ViewFingerprints

(* C11: a custom status authored by the user is never overwritten or        *)
(* cleared by the reconciler: a cycle that starts with a user-authored      *)
(* custom status ends with it, whatever was set or had expired before.      *)
C11_UserAuthoredCustomKept ==
    (pc = "done" /\ pre.custom = UserCustomStatus) => custom = UserCustomStatus

(* C13 as claimed: the status-changed counter increases by one for a user   *)
(* for whom the presence or the custom-status reconciliation produced a     *)
(* change; in particular a user with a status-update mode and custom status *)
(* enabled whose presence path was a no-op and whose custom status was set  *)
(* is counted once.                                                          *)
C13_CustomChangeCountedOnce ==
    (/\ Returned /\ AllOk /\ ModeSet /\ settings.SetCustomStatus
     /\ CalledOps \cap PresenceOps = {}
     /\ "UpdateMattermostUserCustomStatus" \in CalledOps
     /\ custom = MeetingCustomStatus /\ pre.custom = NoCustomStatus)
    => out.changed = 1

(* C13 as amended: the status-changed counter increases by one for a user   *)
(* whose presence reconciliation produced a change, and by one for a user   *)
(* whose status-update mode is not set and whose custom status was set; a   *)
(* custom status set for a user with a status-update mode is not counted,   *)
(* also when the presence path was a no-op.  No user is counted twice.      *)
C13_CustomChangeCountedWithoutMode ==
    Returned
    => /\ out.changed =
            Bit(CalledOps \cap {"UpdateMattermostUserStatus", "DMWithAttachments"} # {})
            + Bit(/\ "UpdateMattermostUserCustomStatus" \in CalledOps
                  /\ settings.UpdateStatusFromOptions = NotSetStatusOption)
       /\ out.changed <= 1

C13_Witness ==
    /\ Returned
    /\ settings.UpdateStatusFromOptions = NotSetStatusOption /\ settings.SetCustomStatus
    /\ "UpdateMattermostUserCustomStatus" \in CalledOps
    /\ custom = MeetingCustomStatus /\ pre.custom = NoCustomStatus
    /\ out.changed = 1

(* C12: after every cycle the stored IsCustomStatusSet is true exactly when *)
(* the current custom status was set by the reconciler, also when the       *)
(* custom-status write succeeds and the store write fails.  Stated for the  *)
(* cycles that start with the flag and the custom status in agreement.      *)
C12_FlagMirrorsSystemCustomStatus ==
    (/\ Returned
     /\ pre.store.IsCustomStatusSet <=> (pre.custom = MeetingCustomStatus))
    => (store.IsCustomStatusSet <=> (custom = MeetingCustomStatus))

----------------------------------------------------------------------------
(* Vocabulary of the properties of a SyncAll run *)

JobDone == job.pc = "done"
JobRan ==
    /\ JobDone /\ job.filterOk /\ job.indexRes = "ok"
    /\ job.viewsRes = "ok" /\ job.statusesOk /\ job.fetched # {}
JobUsers == EligibleOf(job.index)
LoadFailed == {k \in DOMAIN job.index : job.index[k].loadErr}
FetchFailed == {JobUsers[j] : j \in {n \in DOMAIN job.views : job.views[n].error}}
PresenceErrors == {j \in DOMAIN job.views : OutcomeError(job.views[j].p)}
CustomErrors == {j \in DOMAIN job.views : OutcomeError(job.views[j].c)}
WantsStatus == {k \in DOMAIN job.index : job.index[k].mode \/ job.index[k].custom}
WantsReminders == {k \in DOMAIN job.index : job.index[k].reminders}
WarningsOf(cat) == {k \in DOMAIN job.log : job.log[k].cat = cat}

(* C14: when the fetch answers with an error for a user, or the store fails *)
(* to load a user, the cycle still processes every other user, makes no     *)
(* write for the failed user, and counts that user exactly once as failed,  *)
(* whatever the user's settings are, reminders alone included.  Stated for  *)
(* the runs in which no reconciliation fails.                                *)
C14_FailedUserSkippedAndCounted ==
    (JobRan /\ PresenceErrors = {} /\ CustomErrors = {})
    => /\ job.summary.failed = Cardinality(LoadFailed \cup FetchFailed)
       /\ (LoadFailed \cup FetchFailed) \cap (job.notified \cup job.reconciled) = {}
       /\ \A i \in job.fetched \ FetchFailed :
             /\ i \in WantsReminders => i \in job.notified
             /\ i \in WantsStatus => i \in job.reconciled

(* C15: a failed presence write or custom-status write for one user does    *)
(* not abort the cycle: every other user is reconciled, the sync returns no *)
(* error, and each failure is counted in NumberOfUsersFailedStatusChanged.  *)
C15_WriteFailureDoesNotAbort ==
    JobRan
    => /\ ~job.err
       /\ \A i \in (job.fetched \cap WantsStatus) \ FetchFailed : i \in job.reconciled
       /\ job.summary.failed =
             Cardinality(LoadFailed) + Cardinality(FetchFailed \cap WantsStatus)
             + Cardinality(PresenceErrors) + Cardinality(CustomErrors)

C15_Witness ==
    /\ JobRan /\ Len(job.views) = MaxUsers
    /\ job.views[1].p = "error"
    /\ job.views[2].c = "changed-error"
    /\ job.views[MaxUsers].p = "changed"
    /\ MaxUsers \in job.reconciled
    /\ job.summary.failed = 2
    /\ ~job.err

(* C16 as claimed: every structural failure of SyncAll (the batch caller    *)
(* cannot be authenticated, the user index cannot be loaded for any reason) *)
(* aborts the cycle: a non-nil error, no user fetched or reconciled.        *)
C16_StructuralFailureAborts ==
    (JobDone /\ (~job.filterOk \/ job.indexRes # "ok"))
    => /\ job.err
       /\ job.loaded = {} /\ job.fetched = {}
       /\ job.notified = {} /\ job.reconciled = {}

(* C16 as amended: when the batch caller cannot be authenticated, or the    *)
(* user index cannot be loaded, no user is loaded, fetched, reconciled or   *)
(* counted; SyncAll returns a non-nil error, except when the index load     *)
(* fails with "not found": then it returns the message "No users found in   *)
(* user index" and no error.  When the batched fetch itself fails, the      *)
(* sync returns an error and no user is notified or reconciled.             *)
C16_StructuralFailureAbortsUnlessNotFound ==
    /\ (JobDone /\ (~job.filterOk \/ job.indexRes # "ok"))
       => /\ job.err <=> (~job.filterOk \/ job.indexRes # "not found")
          /\ ~job.err => job.msg = "No users found in user index"
          /\ job.loaded = {} /\ job.fetched = {}
          /\ job.notified = {} /\ job.reconciled = {}
          /\ job.summary = NoSummary
    /\ (JobDone /\ job.viewsRes = "error")
       => /\ job.err
          /\ job.fetched = {} /\ job.notified = {} /\ job.reconciled = {}

C16_Witness ==
    /\ JobDone /\ job.filterOk /\ job.indexRes = "not found"
    /\ ~job.err /\ job.msg = "No users found in user index"

(* C17: in one cycle, for each category of warning (user load failure,      *)
(* availability fetch error, status-setting error) at most 5 warnings are   *)
(* logged, whatever the number of failing users is.                          *)
C17_WarningsBoundedPerCategory ==
    JobDone => \A cat \in {"load", "fetch", "status"} :
                  Cardinality(WarningsOf(cat)) <= logTruncateLimit

----------------------------------------------------------------------------
(* Vocabulary of the properties of reminder delivery *)

Abs(n) == IF n < 0 THEN -n ELSE n
RemindedAt(k) == {p[2] : p \in {q \in rem.sent : q[1] = k}}
\* in the calendar, and the job running, from the notification time before the start
KnownInTime(e) ==
    /\ ~e.IsCancelled
    /\ e.Created <= e.Start - upcomingEventNotificationTime
    /\ rem.phase <= e.Start - upcomingEventNotificationTime
\* every cycle that can remind of the event has run
PastReminders(e) == rem.now > e.Start - (upcomingEventNotificationTime - upcomingEventNotificationWindow)

(* C18: with the sync invoked every interval at any phase, the fetch window *)
(* of 10 minutes, the lead time of 10 minutes and the tolerance of 110% of  *)
(* the interval, every non-cancelled event of a reminders-enabled user that *)
(* is in the calendar from 10 minutes before its start is reminded of in at *)
(* least one cycle when nothing fails, and no reminder is sent for an event *)
(* whose start differs from now + 10 minutes by the tolerance or more.      *)
C18_ReminderAtLeastOnceWithinWindow ==
    rem.pc = "run"
    => /\ \A p \in rem.sent :
             /\ ~rem.calendar[p[1]].IsCancelled
             /\ Abs(rem.calendar[p[1]].Start - (p[2] + upcomingEventNotificationTime))
                   < upcomingEventNotificationWindow
       /\ (rem.enabled /\ ~rem.failed)
          => \A k \in DOMAIN rem.calendar :
                (KnownInTime(rem.calendar[k]) /\ PastReminders(rem.calendar[k]))
                => RemindedAt(k) # {}

C18_Witness ==
    /\ rem.pc = "run" /\ rem.enabled /\ ~rem.failed
    /\ \E k \in DOMAIN rem.calendar :
          /\ KnownInTime(rem.calendar[k]) /\ PastReminders(rem.calendar[k])
          /\ rem.calendar[k].Start = MaxClock
          /\ Cardinality(RemindedAt(k)) = 2

----------------------------------------------------------------------------
(* Vocabulary of the properties of two consecutive cycles *)

\* a store or presence write of the first of the two cycles failed
FirstCycleWriteFailed ==
    \E i \in DOMAIN prev.calls :
        /\ ~prev.calls[i].ok
        /\ prev.calls[i].op \in {"StoreUser", "UpdateMattermostUserStatus",
                                 "StoreUserActiveEvents"}
FirstWasFreeToBusy == prev.pre.store.ActiveEvents = <<>> /\ Qualifying
FirstWasBusyToFree == prev.pre.store.ActiveEvents # <<>> /\ BusyIdx = {}
\* what the first cycle leaves when no call fails
FailureFree ==
    setUserStatuses([mem |-> prev.pre.store, store |-> prev.pre.store,
                     status |-> prev.pre.status, custom |-> prev.pre.custom,
                     calls |-> <<>>],
                    prev.pre.status, view, settings, {}).c

(* C19: when a store or presence write fails in a cycle of a FREE->BUSY or  *)
(* BUSY->FREE transition and the next cycle succeeds with the same view,    *)
(* then after that cycle the presence, ActiveEvents and LastStatus are the  *)
(* ones the transition leaves when nothing fails.                           *)
C19_FailedTransitionHealsNextCycle ==
    (/\ Returned /\ prev.followed /\ ModeSet
     /\ FirstCycleWriteFailed /\ AllOk
     /\ FirstWasFreeToBusy \/ FirstWasBusyToFree)
    => /\ status.Status = FailureFree.status.Status
       /\ store.ActiveEvents = FailureFree.store.ActiveEvents
       /\ store.LastStatus = FailureFree.store.LastStatus

----------------------------------------------------------------------------
\* the cycle of the scenario: DND mode, no confirmation, online, nothing stored,
\* one busy meeting with two attendees, no failing call
DndScenario ==
    /\ Returned /\ ~prev.followed
    /\ settings.UpdateStatusFromOptions = DNDStatusOption /\ ~settings.GetConfirmation
    /\ pre.status.Status = StatusOnline
    /\ pre.store.ActiveEvents = <<>>
    /\ Len(view) = 1 /\ view[1].ShowAs = "busy" /\ ~view[1].IsCancelled
    /\ view[1].Attendees = 2
    /\ AllOk

(* C20: for a DND-mode user without confirmation, online, with empty stored *)
(* ActiveEvents and a view of one busy event with 2 attendees, one sync     *)
(* sets the presence to DND, stores exactly one fingerprint and returns the *)
(* message "User was free, but is now busy (dnd). Set status to busy (dnd)." *)
C20_DndScenarioMessage ==
    DndScenario
    => /\ status.Status = StatusDnd
       /\ store.ActiveEvents = <<<<view[1].ICalUID, view[1].Start>>>>
       /\ out.msg = "User was free, but is now busy (dnd). Set status to busy (dnd)."

(* C20, amended: the same cycle sets the presence to DND, stores exactly    *)
(* one fingerprint and returns the message "User was free, but is now busy  *)
(* (dnd). Set status to busy."                                              *)
C20_DndScenarioOutcome ==
    DndScenario
    => /\ status.Status = StatusDnd
       /\ store.ActiveEvents = <<<<view[1].ICalUID, view[1].Start>>>>
       /\ out.msg = "User was free, but is now busy (dnd). Set status to busy."

C20_Witness ==
    /\ DndScenario
    /\ ~pre.status.Manual
    /\ CalledOps = {"StoreUser", "UpdateMattermostUserStatus", "StoreUserActiveEvents"}
    /\ out.changed = 1

----------------------------------------------------------------------------
\* the cycle that follows the cycle of the scenario, with the same view
AfterDndScenario ==
    /\ Returned /\ prev.followed /\ ~prev.out.error
    /\ settings.UpdateStatusFromOptions = DNDStatusOption /\ ~settings.GetConfirmation
    /\ prev.pre.status.Status = StatusOnline
    /\ prev.pre.store.ActiveEvents = <<>>
    /\ Len(view) = 1 /\ view[1].ShowAs = "busy" /\ ~view[1].IsCancelled
    /\ view[1].Attendees = 2
    /\ \A i \in DOMAIN prev.calls : prev.calls[i].ok

(* C21: for the user of the scenario of C20, in the following cycle with    *)
(* the same single event still in the view, the sync writes no presence and *)
(* returns "No change in active events. Total number of events: 1".         *)
C21_NextCycleNoChange ==
    AfterDndScenario
    => /\ "UpdateMattermostUserStatus" \notin CalledOps
       /\ status = pre.status
       /\ out.msg = "No change in active events. Total number of events: 1"

C21_Witness ==
    /\ AfterDndScenario
    /\ prev.out.msg = "User was free, but is now busy (dnd). Set status to busy."
    /\ status.Status = StatusDnd
    /\ calls = <<>>
    /\ out.changed = 0

----------------------------------------------------------------------------
\* the cycle asked for, or wrote, the busy status for a view with busy events
MovedToBusy ==
    /\ BusyIdx # {}
    /\ \E k \in DOMAIN calls :
          /\ calls[k].op \in {"UpdateMattermostUserStatus", "DMWithAttachments"}
          /\ calls[k].arg = ConfiguredBusy
          /\ calls[k].ok

(* C23: whenever a cycle moves a user to the busy status (presence write or *)
(* confirmation DM for a view with busy events), the ActiveEvents stored by *)
(* that cycle is non-empty, also when the busy events of the view are all   *)
(* cancelled.  Stated for the cycles in which no call fails.                *)
C23_BusyImpliesActiveEvents ==
    (Returned /\ ModeSet /\ AllOk /\ MovedToBusy) => store.ActiveEvents # <<>>

(* C25: in the summary of a sync the user contributes at most 1 to          *)
(* NumberOfUsersStatusChanged and at most 1 to                              *)
(* NumberOfUsersFailedStatusChanged and is not counted both as changed and  *)
(* as failed, so changed + failed <= processed.                             *)
C25_SummaryCountsUserOnce ==
    Returned
    => /\ out.changed <= 1
       /\ out.failed <= 1
       /\ out.changed + out.failed <= out.processed

\* a confirmation for the busy status was sent in the first of the two cycles
FirstCycleAsked ==
    \E k \in DOMAIN prev.calls :
        /\ prev.calls[k].op = "DMWithAttachments"
        /\ prev.calls[k].arg = ConfiguredBusy
        /\ prev.calls[k].ok

(* C26: for a user who requires confirmation and does not answer it, a      *)
(* cycle that follows the cycle in which the confirmation was sent, with    *)
(* the same busy events in the view, sends no further confirmation.         *)
C26_ConfirmationSentOnce ==
    (/\ Returned /\ prev.followed /\ ~prev.out.error
     /\ ModeSet /\ settings.GetConfirmation
     /\ BusyIdx # {}
     /\ FirstCycleAsked
     /\ \A i \in DOMAIN prev.calls : prev.calls[i].ok)
    => "DMWithAttachments" \notin CalledOps

----------------------------------------------------------------------------
BothReturned == pc = "racing" /\ \A p \in Invocations : procs[p].pc = "done"

(* C24: when a manual Sync and a scheduled SyncAll run at once over the     *)
(* same view for a user going FREE->BUSY, in any interleaving, the state    *)
(* after both is the one a single invocation leaves: the presence is the    *)
(* busy status, ActiveEvents is the fingerprints of the view and LastStatus *)
(* is the manually set presence of before the meeting.                      *)
C24_ConcurrentSyncsAsOne ==
    (/\ BothReturned /\ ModeSet /\ ~settings.GetConfirmation
     /\ pre.store.ActiveEvents = <<>>
     /\ Qualifying /\ LiveIdx = BusyIdx
     /\ pre.status.Manual
     /\ pre.status.Status \notin {ConfiguredBusy, StatusOffline})
    => /\ status.Status = ConfiguredBusy
       /\ Range(store.ActiveEvents) = ViewFingerprints
       /\ store.LastStatus = pre.status.Status

----------------------------------------------------------------------------
(* Vocabulary of the properties of the OAuth2 completion *)

Completed == http.pc = "served" /\ http.handler = "oauth2Complete"
HasUser == http.req.userID # ""
HasCode == http.req.code # ""
StateVerified == "VerifyOAuth2State" \notin http.env
StateMatches ==
    \/ http.req.state = "user_fake@mattermost.com" /\ http.req.userID = "fake@mattermost.com"
    \/ http.req.state = "user_other@mattermost.com" /\ http.req.userID = "other@mattermost.com"
Exchanged == "Exchange" \notin http.env
GotMe == "GetMe" \notin http.env
Stored == "StoreUser" \notin http.env

(* C22: the OAuth2 completion handler applies its checks in a fixed order   *)
(* and stops at the first failure: no user ID -> 401 "Not authorized";      *)
(* empty code -> 400; state not verified -> 400; user ID of the state       *)
(* differs -> 401; token exchange fails -> 500; user info cannot be fetched *)
(* -> 500; storing the user fails -> 500; otherwise 200 and the user record *)
(* is stored; on every failure no user record is stored.  The handler       *)
(* answers every case of TestOauth2Complete with the code the test expects. *)
C22_OAuth2ChecksInOrder ==
    /\ \A tc \in tcs : oauth2Complete(tc.r, tc.failing, {}).code = tc.expectedHTTPCode
    /\ Completed
       => /\ ~HasUser => (http.code = StatusUnauthorized /\ http.body = "Not authorized")
          /\ (HasUser /\ ~HasCode) => http.code = StatusBadRequest
          /\ (HasUser /\ HasCode /\ ~StateVerified) => http.code = StatusBadRequest
          /\ (HasUser /\ HasCode /\ StateVerified /\ ~StateMatches)
                => http.code = StatusUnauthorized
          /\ (HasUser /\ HasCode /\ StateVerified /\ StateMatches /\ ~Exchanged)
                => http.code = StatusInternalServerError
          /\ (HasUser /\ HasCode /\ StateVerified /\ StateMatches /\ Exchanged /\ ~GotMe)
                => http.code = StatusInternalServerError
          /\ (HasUser /\ HasCode /\ StateVerified /\ StateMatches /\ Exchanged /\ GotMe
              /\ ~Stored)
                => http.code = StatusInternalServerError
          /\ (HasUser /\ HasCode /\ StateVerified /\ StateMatches /\ Exchanged /\ GotMe
              /\ Stored)
                => (http.code = StatusOK /\ http.users = http.before \cup {http.req.userID})
          /\ http.code # StatusOK => http.users = http.before

C22_Witness ==
    /\ Completed
    /\ ~HasUser /\ ~HasCode /\ ~StateVerified /\ ~Exchanged
    /\ http.code = StatusUnauthorized
    /\ http.before = {"other@mattermost.com"}
    /\ http.users = http.before

----------------------------------------------------------------------------
(* Vocabulary of the properties of the webhook handler *)

Handled == http.pc = "served" /\ http.handler = "webhookEvent"
\* the creator a stored subscription names, whose settings record this subscription
CurrentCreatorOf(k) ==
    {c \in Creators :
        /\ http.env.subs[http.hook[k].SubscriptionID] = c
        /\ http.env.settingsOf[c] = http.hook[k].SubscriptionID}
Mentions(k, c) == c = http.hook[k].Organizer \/ c \in http.hook[k].Attendees
PostedOf(k) == {i \in DOMAIN http.posted : http.posted[i].n = k}

(* C27: the webhook handler posts a direct message for a notification only  *)
(* when the notification's subscription is the one recorded in the settings *)
(* of its creator and the creator is the organizer or an attendee of the    *)
(* event; when posting one notification fails the handler answers with an   *)
(* internal server error and posts none of the remaining notifications.     *)
C27_WebhookPostsOnlyForCurrentSubscription ==
    Handled
    => /\ \A i \in DOMAIN http.posted :
             /\ http.posted[i].to \in CurrentCreatorOf(http.posted[i].n)
             /\ Mentions(http.posted[i].n, http.posted[i].to)
       /\ \A k \in DOMAIN http.hook :
             (/\ http.env.failAt = k
              /\ \E c \in CurrentCreatorOf(k) : Mentions(k, c)
              /\ \A j \in 1..(k-1) : CurrentCreatorOf(j) # {} \/ http.env.onError = "go on")
             => /\ http.code = StatusInternalServerError
                /\ \A j \in k..Len(http.hook) : PostedOf(j) = {}

C27_Witness ==
    /\ Handled
    /\ Len(http.hook) = 2
    /\ http.env.failAt = 1
    /\ \E c \in CurrentCreatorOf(1) : Mentions(1, c)
    /\ \E c \in CurrentCreatorOf(2) : Mentions(2, c)
    /\ http.code = StatusInternalServerError
    /\ http.posted = <<>>

====
